---- MODULE Spec2Model ----
(***************************************************************************)
(* Model of the AppMetrica -> ClickHouse synchronisation job:              *)
(*   src/appmetrica_etl.py                    (check_connections, main)    *)
(*   src/connectors/appmetrica_connector.py   (AppMetricaConnector)        *)
(*   src/connectors/ch_connector.py           (ClickHouseConnector)        *)
(*   src/config.py                            (static configuration)       *)
(*                                                                         *)
(* Time is counted in whole seconds; a day has DayLen seconds.  The remote *)
(* service and the ClickHouse server are the environment: every HTTP       *)
(* status, every payload and every server-side failure is chosen with \E.  *)
(***************************************************************************)
EXTENDS Integers, Sequences, FiniteSets, TLC

VARIABLES
    pc,                     \* position of the running call
    idx,                    \* do_app_etl: index of source_name in source_names
    client,                 \* ClickHouseConnector.client is not None
    connection_errors,      \* check_connections: the local list
    src_max_date,           \* do_source_etl: src_max_date
    params,                 \* AppMetricaConnector.params
    data_request_endpoint,  \* AppMetricaConnector.data_request_endpoint
    n_retries,              \* _get_data_from_source: argument n_retries
    attempt,                \* _get_data_from_source: loop variable i
    src_data,               \* do_source_etl: src_data
    ret,                    \* return value of the last connector call
    err,                    \* the exception that left main(), "none" if none
    now,                    \* datetime.now() / time.sleep: the wall clock
    table,                  \* rows (timestamps) of each ClickHouse table
    requests,               \* history: every HTTP request sent, in order
    storeOps,               \* history: every ClickHouse call, in order
    sleeps,                 \* history: every time.sleep call, in order
    calls                   \* calls made by the caller: of the connector's
                            \* methods (SpecConn), of main() again (SpecRuns)

vars == <<pc, idx, client, connection_errors, src_max_date, params,
          data_request_endpoint, n_retries, attempt, src_data, ret, err, now,
          table, requests, storeOps, sleeps, calls>>

----------------------------------------------------------------------------
(* Bounds of the model.                                                    *)

\* seconds in a day (86400), scaled down
DayLen == 4
\* default n_retries of _get_data_from_source (40), scaled down
DefaultRetries == 3
\* default wait_s of _get_data_from_source (30), scaled down
DefaultWait == 1
\* largest n_retries a direct caller of _get_data_from_source passes
MaxAttempts == 3
\* most records in one export payload
MaxBatch == 1
\* most connector calls of the direct-call specification
MaxCalls == 3
\* most rows of a frame given to _prepare_dataframe
MaxRows == 3

----------------------------------------------------------------------------
(* Static configuration, src/config.py                                     *)

\* main(): app_id
app_id == 4804657

\* list(appmetrica_endpoints.keys()): dicts keep insertion order
source_names == <<"installations", "events">>

appmetrica_endpoints ==
    [installations |-> "/logs/v1/export/installations.json",
     events        |-> "/logs/v1/export/events.json"]

\* the comma-joined field lists, abbreviated to their first and last field
appmetrica_fields ==
    [installations |-> "application_id,...,app_version_name",
     events        |-> "event_datetime,...,application_id"]

appmetrica_ch_tables ==
    [installations |-> [table_name      |-> "noproblem.appmetrica_installations",
                        date_time_field |-> "install_datetime"],
     events        |-> [table_name      |-> "noproblem.appmetrica_events",
                        date_time_field |-> "event_datetime"]]

test_endpoint == "/management/v1/applications"

----------------------------------------------------------------------------
(* Values                                                                  *)

\* Python's None, for params and for a dict-valued result
None == [none |-> TRUE]

\* Python's None for a datetime (MAX over an empty table)
NoDate == -1

\* HTTP statuses the remote answers with: ready, pending, anything else
Statuses == {200, 202, 500}

SeqRange(s) == {s[j] : j \in 1..Len(s)}

RECURSIVE SetMax(_)
SetMax(S) ==
    IF S = {} THEN NoDate
    ELSE LET x == CHOOSE y \in S : TRUE
             m == SetMax(S \ {x})
         IN IF x > m THEN x ELSE m

\* datetime.strftime('%Y-%m-%d %H:%M:%S'): the date part and the time part
strftime(t) == [date |-> t \div DayLen, time |-> t % DayLen]

\* what the remote parses date_since / date_until back to
strptime(s) == s.date * DayLen + s.time

\* datetime.replace(hour=0, minute=0, second=0, microsecond=0)
StartOfDay(t) == t - (t % DayLen)

\* results of connector calls: a bool, a dict with a 'data' list, a raised
\* exception, or a call still in its loop
PyBool(b) == [bool |-> b]
PyDict(d) == [data |-> d]
Raised(e) == [raised |-> e]
Running == [running |-> TRUE]

BoundedSeq(S, n) == UNION {[1..k -> S] : k \in 0..n}

----------------------------------------------------------------------------
(* AppMetricaConnector, src/connectors/appmetrica_connector.py             *)

\* (a date_until that is not cut to the start of the day)
DateUntilNoFloor(t) == t - 1

\* _request_source_data: date_until = start of today minus one second
DateUntil(t) == StartOfDay(t) - 1

\* _request_source_data: self.params
RequestParams(source, app, date_from, t) ==
    [application_id |-> app,
     date_since     |-> strftime(date_from),
     date_until     |-> strftime(DateUntil(t)),
     fields         |-> appmetrica_fields[source]]

\* (a submit that takes "already requested" for an error)
SubmitResultStrict(status) ==
    IF status = 202 THEN "Accepted" ELSE "Rejected"

\* _request_source_data: the three branches on response.status_code
SubmitResult(status) ==
    IF status = 202 THEN "Accepted"
    ELSE IF status = 200 THEN "AlreadyRequested"
    ELSE "Rejected"

\* _request_source_data: the returned bool
SubmitReturn(status) == SubmitResult(status) # "Rejected"

\* _get_data_from_source: the guard before the loop, then range(n_retries)
PollEntry(p, n) ==
    IF p = None THEN "not_submitted"
    ELSE IF n <= 0 THEN "timeout"
    ELSE "loop"

\* (a poll that computes date_until again)
PollParamsRecomputed(p, t) ==
    [p EXCEPT !.date_until = strftime(StartOfDay(t) - 1)]

\* _get_data_from_source: the endpoint and query string of one loop iteration
PollEndpoint(endpoint, t) == endpoint
PollParams(p, t) == p

\* (a poll that sleeps on a ready answer; one that retries after an error)
PollResultNoReady(status) ==
    IF status \in {200, 202} THEN "pending" ELSE "failed"
PollResultRetry(status) ==
    IF status = 200 THEN "ready" ELSE "pending"

\* _get_data_from_source: the three branches on response.status_code
PollResult(status) ==
    IF status = 202 THEN "pending"
    ELSE IF status = 200 THEN "ready"
    ELSE "failed"

\* (a loop that runs one iteration too many; a loop with no ceiling)
LoopExhaustedLate(i, n) == i >= n
LoopExhaustedNever(i, n) == FALSE

\* _get_data_from_source: does the for loop end after iteration i (0-based)
LoopExhausted(i, n) == i + 1 >= n

\* the records the remote may put in a payload: up to MaxBatch records whose
\* timestamps are the ends of the requested range [date_since, date_until].
\* A record is known by its timestamp: the remote holds one record for a
\* timestamp and lists each record once, oldest first.
Payloads(p) ==
    LET since == strptime(p.date_since)
        until == strptime(p.date_until)
    IN {b \in BoundedSeq({since, until} \cap (since .. until), MaxBatch) :
          \A j \in 1..(Len(b) - 1) : b[j] < b[j + 1]}

\* one HTTP request, as the remote saw it, with the status it answered
\* (cat and call are history: the source being synchronised and the number
\* of the connector call that sent it)
Req(kind, cat, call, endpoint, p, status, t) ==
    [kind |-> kind, cat |-> cat, call |-> call, endpoint |-> endpoint,
     params |-> p, status |-> status, at |-> t]

\* _request_source_data(source, app, date_from), answered with status
RequestSourceData(cat, call, source, app, date_from, status) ==
    LET p == RequestParams(source, app, date_from, now)
        e == appmetrica_endpoints[source]
    IN /\ params' = p
       /\ data_request_endpoint' = e
       /\ requests' = Append(requests, Req("submit", cat, call, e, p, status, now))
       /\ ret' = PyBool(SubmitReturn(status))

\* one iteration of the loop of _get_data_from_source, answered with status
\* and, when ready, with the payload batch
PollStep(cat, call, status, batch) ==
    /\ requests' = Append(requests,
           Req("poll", cat, call, PollEndpoint(data_request_endpoint, now),
               PollParams(params, now), status, now))
    /\ IF PollResult(status) = "pending"
       THEN /\ sleeps' = Append(sleeps, [cat |-> cat, after |-> Len(requests')])
            /\ now' = now + DefaultWait
            /\ attempt' = attempt + 1
            /\ ret' = IF LoopExhausted(attempt, n_retries)
                      THEN Raised("TimeoutError") ELSE Running
       ELSE /\ UNCHANGED <<sleeps, now, attempt>>
            /\ ret' = IF PollResult(status) = "ready"
                      THEN PyDict(batch) ELSE PyBool(FALSE)

\* get_source_data: result_data['data']
HasData(r) == "data" \in DOMAIN r

----------------------------------------------------------------------------
(* ClickHouseConnector, src/connectors/ch_connector.py                     *)

\* one call of a connector method: its outcome and the rows it wrote
StoreOp(op, cat, outcome, wrote) ==
    [op |-> op, cat |-> cat, outcome |-> outcome, wrote |-> wrote]

\* (a disconnect that closes without looking for a client)
DisconnectOpsAlways(cl, ops) == Append(ops, StoreOp("close", "", "ok", 0))

\* disconnect(): closes the client only when there is one
DisconnectOps(cl, ops) ==
    IF cl THEN Append(ops, StoreOp("close", "", "ok", 0)) ELSE ops

\* connect(): get_client and the SELECT 1 check; on any exception
\* disconnect() and return False.  When get_client raises, self.client is
\* still what it was before the call (cl); when the check fails it is the
\* new client.
ConnectOutcomes == {"ok", "no_client", "bad_check"}
ConnectReturn(outcome) == outcome = "ok"
ConnectOps(cl, outcome, ops) ==
    LET tried == Append(ops, StoreOp("connect", "", outcome, 0))
    IN IF outcome = "ok" THEN tried
       ELSE DisconnectOps(cl \/ outcome = "bad_check", tried)

\* (a query that takes the first row's date, not the maximum)
MaxDatesFirst(rows) ==
    IF rows = <<>> THEN {NoDate, 0} ELSE {rows[1]}

\* get_target_max_date: SELECT MAX(date_time_field) FROM table_name; over an
\* empty table the server answers NULL or the column's default (the epoch),
\* as the table's schema and the server's settings decide
MaxDates(rows) ==
    IF rows = <<>> THEN {NoDate, 0} ELSE {SetMax(SeqRange(rows))}

\* (an insert that does not look for an empty frame)
IsEmptyNever(df) == FALSE

\* (a log line that does not format the date)
LogMaxDateNeverRaises(m) == FALSE

\* get_target_max_date: the log line calls max_date.strftime, which raises
\* AttributeError when max_date is None
LogMaxDateRaises(m) == m = NoDate

\* insert_dataframe: df.empty
IsEmpty(df) == Len(df) = 0

\* (an insert that replaces the table's rows)
InsertRowsReplace(rows, df) == df

\* client.insert_df(table, df): the rows are appended to the table
InsertRows(rows, df) == rows \o df

\* how a call of a connector method ends: it returns ("none") or raises
Exceptions ==
    {"none", "ConnectionError", "QueryError", "AttributeError", "InsertError"}

\* get_target_max_date(target), ending as e says: execute_query refuses
\* without a client, the query may raise, the log line may raise
GetTargetMaxDate(target, e) ==
    IF ~client
    THEN /\ e = "ConnectionError"
         /\ storeOps' = Append(storeOps,
                StoreOp("max", target, "not_connected", 0))
         /\ UNCHANGED src_max_date
    ELSE \/ /\ e = "QueryError"
            /\ storeOps' = Append(storeOps, StoreOp("max", target, "raise", 0))
            /\ UNCHANGED src_max_date
         \/ \E m \in MaxDates(table[target]) :
            /\ e = IF LogMaxDateRaises(m) THEN "AttributeError" ELSE "none"
            /\ storeOps' = Append(storeOps,
                   StoreOp("max", target,
                           IF m = NoDate THEN "null" ELSE "ok", 0))
            /\ src_max_date' = m

\* insert_source_data(target, df), ending as e says: insert_dataframe
\* refuses without a client, returns on an empty frame, else insert_df
InsertDataframe(target, df, e) ==
    IF ~client
    THEN /\ e = "ConnectionError"
         /\ storeOps' = Append(storeOps,
                StoreOp("insert", target, "not_connected", 0))
         /\ UNCHANGED table
    ELSE IF IsEmpty(df)
    THEN /\ e = "none"
         /\ storeOps' = Append(storeOps, StoreOp("insert", target, "empty", 0))
         /\ UNCHANGED table
    ELSE \/ /\ e = "InsertError"
            /\ storeOps' = Append(storeOps,
                   StoreOp("insert", target, "raise", 0))
            /\ UNCHANGED table
         \/ /\ e = "none"
            /\ storeOps' = Append(storeOps,
                   StoreOp("insert", target, "ok", Len(df)))
            /\ table' = [table EXCEPT
                   ![target] = InsertRows(table[target], df)]

----------------------------------------------------------------------------
(* src/appmetrica_etl.py                                                   *)

NSources == Len(source_names)
Source == source_names[idx]

\* (a check that ignores the ClickHouse failure; one that needs both to fail)
CheckRaisesOnlySource(errors) ==
    \E j \in 1..Len(errors) : errors[j] = "App Metrica"
CheckRaisesOnlyBoth(errors) == Len(errors) >= 2

\* check_connections: if connection_errors
CheckRaises(errors) == errors # <<>>

\* (a loop that catches the exception and goes on with the next source)
AfterRaiseIsolated(i) ==
    IF i < Len(source_names) THEN [pc |-> "max_date", idx |-> i + 1]
    ELSE [pc |-> "disconnect", idx |-> i]

\* an exception raised below do_app_etl: nothing catches it, main() ends
AfterRaise(i) == [pc |-> "failed", idx |-> i]

\* (a loop that reuses the watermark of the source before)
AfterSourceNoWatermark(i) ==
    IF i < Len(source_names) THEN [pc |-> "request", idx |-> i + 1]
    ELSE [pc |-> "disconnect", idx |-> i]

\* do_app_etl: the next iteration of the loop over source_names, or the
\* statement of main() after do_app_etl
AfterSource(i) ==
    IF i < NSources THEN [pc |-> "max_date", idx |-> i + 1]
    ELSE [pc |-> "disconnect", idx |-> i]

Raise(e) ==
    /\ err' = e
    /\ pc' = AfterRaise(idx).pc
    /\ idx' = AfterRaise(idx).idx

Goto(next) ==
    /\ pc' = next.pc
    /\ idx' = next.idx
    /\ UNCHANGED err

\* main() starts during the day or in the last second before midnight
StartTimes == {2 * DayLen + 1, 3 * DayLen - 1}
StartTables == {<<>>, <<DayLen + 1>>}

InitAt(start) ==
    /\ pc = start
    /\ idx = 1
    /\ client = FALSE
    /\ connection_errors = <<>>
    /\ src_max_date = NoDate
    /\ params = None
    /\ data_request_endpoint = "unset"
    /\ n_retries = DefaultRetries
    /\ attempt = 0
    /\ src_data = <<>>
    /\ ret = None
    /\ err = "none"
    /\ now \in StartTimes
    /\ table \in [SeqRange(source_names) -> StartTables]
    /\ requests = <<>>
    /\ storeOps = <<>>
    /\ sleeps = <<>>
    /\ calls = 0

\* main() is about to call check_connections()
Init == InitAt("connect")

\* check_connections: client_ch.connect()
Connect ==
    /\ pc = "connect"
    /\ \E outcome \in ConnectOutcomes :
        /\ client' = ConnectReturn(outcome)
        /\ storeOps' = ConnectOps(client, outcome, storeOps)
        /\ connection_errors' =
              IF ConnectReturn(outcome) THEN connection_errors
              ELSE Append(connection_errors, "Clikchouse")
    /\ pc' = "test_connection"
    /\ UNCHANGED <<idx, src_max_date, params, data_request_endpoint, n_retries,
                   attempt, src_data, ret, err, now, table, requests, sleeps,
                   calls>>

\* check_connections: client_am.test_connection(), then the final check
TestConnection ==
    /\ pc = "test_connection"
    /\ \E status \in Statuses :
        /\ requests' = Append(requests,
               Req("probe", "", 0, test_endpoint, None, status, now))
        /\ ret' = PyBool(status = 200)
        /\ connection_errors' =
              IF status = 200 THEN connection_errors
              ELSE Append(connection_errors, "App Metrica")
    /\ IF CheckRaises(connection_errors')
       THEN /\ client' = FALSE
            /\ storeOps' = DisconnectOps(client, storeOps)
            /\ err' = "ConnectionError"
            /\ pc' = "failed"
            /\ UNCHANGED idx
       ELSE /\ Goto([pc |-> "max_date", idx |-> 1])
            /\ UNCHANGED <<client, storeOps>>
    /\ UNCHANGED <<src_max_date, params, data_request_endpoint, n_retries,
                   attempt, src_data, now, table, sleeps, calls>>

\* do_source_etl: client_ch.get_target_max_date(source_name)
MaxDate ==
    /\ pc = "max_date"
    /\ \E e \in Exceptions :
        /\ GetTargetMaxDate(Source, e)
        /\ IF e = "none" THEN Goto([pc |-> "request", idx |-> idx])
           ELSE Raise(e)
    /\ UNCHANGED <<client, connection_errors, params, data_request_endpoint,
                   n_retries, attempt, src_data, ret, now, table, requests,
                   sleeps, calls>>

\* get_source_data: _request_source_data, then the call of
\* _get_data_from_source with its defaults, up to its loop
Request ==
    /\ pc = "request"
    /\ \E status \in Statuses :
          RequestSourceData(Source, idx, Source, app_id, src_max_date, status)
    /\ IF ret'.bool
       THEN /\ n_retries' = DefaultRetries
            /\ attempt' = 0
            /\ IF PollEntry(params', DefaultRetries) = "loop"
               THEN Goto([pc |-> "polling", idx |-> idx])
               ELSE IF PollEntry(params', DefaultRetries) = "timeout"
               THEN Raise("TimeoutError")
               ELSE Raise("TypeError")
       ELSE /\ Raise("TypeError")
            /\ UNCHANGED <<n_retries, attempt>>
    /\ UNCHANGED <<client, connection_errors, src_max_date, src_data, now,
                   table, storeOps, sleeps, calls>>

\* get_source_data: one iteration of the loop of _get_data_from_source, and
\* result_data['data'] when the loop is left
Poll ==
    /\ pc = "polling"
    /\ \E status \in Statuses :
       \E batch \in (IF status = 200
                     THEN Payloads(PollParams(params, now)) ELSE {<<>>}) :
          PollStep(Source, idx, status, batch)
    /\ IF ret' = Running
       THEN /\ Goto([pc |-> "polling", idx |-> idx])
            /\ UNCHANGED src_data
       ELSE IF "raised" \in DOMAIN ret'
       THEN /\ Raise(ret'.raised)
            /\ UNCHANGED src_data
       ELSE IF HasData(ret')
       THEN /\ src_data' = ret'.data
            /\ Goto([pc |-> "insert", idx |-> idx])
       ELSE /\ Raise("TypeError")
            /\ UNCHANGED src_data
    /\ UNCHANGED <<client, connection_errors, src_max_date, params,
                   data_request_endpoint, n_retries, table, storeOps, calls>>

\* do_source_etl: pd.DataFrame(src_data), client_ch.insert_source_data
Insert ==
    /\ pc = "insert"
    /\ \E e \in Exceptions :
        /\ InsertDataframe(Source, src_data, e)
        /\ IF e = "none" THEN Goto(AfterSource(idx)) ELSE Raise(e)
    /\ UNCHANGED <<client, connection_errors, src_max_date, params,
                   data_request_endpoint, n_retries, attempt, src_data, ret,
                   now, requests, sleeps, calls>>

\* main: client_ch.disconnect() after do_app_etl returned
Disconnect ==
    /\ pc = "disconnect"
    /\ client' = FALSE
    /\ storeOps' = DisconnectOps(client, storeOps)
    /\ pc' = "done"
    /\ UNCHANGED <<idx, connection_errors, src_max_date, params,
                   data_request_endpoint, n_retries, attempt, src_data, ret,
                   err, now, table, requests, sleeps, calls>>

Next ==
    \/ Connect
    \/ TestConnection
    \/ MaxDate
    \/ Request
    \/ Poll
    \/ Insert
    \/ Disconnect

Spec == Init /\ [][Next]_vars

----------------------------------------------------------------------------
(* The connector on its own: a caller that holds an AppMetricaConnector    *)
(* and calls _request_source_data and _get_data_from_source in any order.  *)

\* a connector fresh from __init__, no call made yet
InitConn ==
    /\ InitAt("idle")
    /\ table = [c \in SeqRange(source_names) |-> <<>>]

\* the dates a direct caller passes as date_from
DirectDates == {0, DayLen + 1}

\* a call of _request_source_data(source, app, date_from)
CallRequest ==
    /\ pc = "idle"
    /\ calls < MaxCalls
    /\ calls' = calls + 1
    /\ \E source \in SeqRange(source_names), date_from \in DirectDates,
          status \in Statuses :
          RequestSourceData(source, calls', source, app_id, date_from, status)
    /\ UNCHANGED <<pc, idx, client, connection_errors, src_max_date,
                   n_retries, attempt, src_data, err, now, table, storeOps,
                   sleeps>>

\* a call of _get_data_from_source(n_retries), up to its loop
CallGetData ==
    /\ pc = "idle"
    /\ calls < MaxCalls
    /\ calls' = calls + 1
    /\ \E n \in 0 .. MaxAttempts :
        /\ n_retries' = n
        /\ attempt' = 0
        /\ IF PollEntry(params, n) = "loop"
           THEN /\ ret' = Running
                /\ pc' = "direct_polling"
           ELSE /\ ret' = IF PollEntry(params, n) = "timeout"
                          THEN Raised("TimeoutError") ELSE PyBool(FALSE)
                /\ pc' = "idle"
    /\ UNCHANGED <<idx, client, connection_errors, src_max_date, params,
                   data_request_endpoint, src_data, err, now, table, requests,
                   storeOps, sleeps>>

\* one iteration of the loop of _get_data_from_source, called directly
DirectPoll ==
    /\ pc = "direct_polling"
    /\ \E status \in Statuses :
       \E batch \in (IF status = 200
                     THEN Payloads(PollParams(params, now)) ELSE {<<>>}) :
          PollStep("direct", calls, status, batch)
    /\ pc' = IF ret' = Running THEN "direct_polling" ELSE "idle"
    /\ UNCHANGED <<idx, client, connection_errors, src_max_date, params,
                   data_request_endpoint, n_retries, src_data, err, table,
                   storeOps, calls>>

NextConn ==
    \/ CallRequest
    \/ CallGetData
    \/ DirectPoll

SpecConn == InitConn /\ [][NextConn]_vars

----------------------------------------------------------------------------
(* Two successive runs: the scheduler starts the job again after a run     *)
(* ended, on the same day or on the next one.  The new process builds new  *)
(* connectors; the tables are what the first run left.                     *)

\* the first of the two runs starts during the day and finds a stored row in
\* every table
InitRuns ==
    /\ Init
    /\ now % DayLen = 1
    /\ \A c \in SeqRange(source_names) : table[c] # <<>>

\* the clock when the job is started again
RestartTimes(t) == {t, StartOfDay(t) + DayLen + 1}

Restart ==
    /\ pc \in {"done", "failed"}
    /\ calls = 0
    /\ calls' = calls + 1
    /\ pc' = "connect"
    /\ idx' = 1
    /\ client' = FALSE
    /\ connection_errors' = <<>>
    /\ src_max_date' = NoDate
    /\ params' = None
    /\ data_request_endpoint' = "unset"
    /\ n_retries' = DefaultRetries
    /\ attempt' = 0
    /\ src_data' = <<>>
    /\ ret' = None
    /\ err' = "none"
    /\ now' \in RestartTimes(now)
    /\ requests' = <<>>
    /\ storeOps' = <<>>
    /\ sleeps' = <<>>
    /\ UNCHANGED table

NextRuns ==
    \/ Next
    \/ Restart

SpecRuns == InitRuns /\ [][NextRuns]_vars

----------------------------------------------------------------------------
(* The store connector on its own: beside the run of main(), a caller that *)
(* holds a ClickHouseConnector and calls connect, disconnect,              *)
(* get_target_max_date and insert_source_data in any order, catching what  *)
(* they raise: err is what the last call that can raise ended with.       *)

\* main() about to start, or a connector fresh from __init__ over empty
\* tables
InitStore ==
    \/ Init
    \/ /\ InitAt("store_idle")
       /\ table = [c \in SeqRange(source_names) |-> <<>>]

\* the frames a direct caller passes to insert_source_data
DirectFrames == {<<>>, <<DayLen + 1>>}

\* a call of connect()
CallConnect ==
    /\ pc = "store_idle"
    /\ calls < MaxCalls
    /\ calls' = calls + 1
    /\ \E outcome \in ConnectOutcomes :
        /\ client' = ConnectReturn(outcome)
        /\ storeOps' = ConnectOps(client, outcome, storeOps)
        /\ ret' = PyBool(ConnectReturn(outcome))
    /\ UNCHANGED <<pc, idx, err, connection_errors, src_max_date, params,
                   data_request_endpoint, n_retries, attempt, src_data, now,
                   table, requests, sleeps>>

\* a call of disconnect()
CallDisconnect ==
    /\ pc = "store_idle"
    /\ calls < MaxCalls
    /\ calls' = calls + 1
    /\ client' = FALSE
    /\ storeOps' = DisconnectOps(client, storeOps)
    /\ ret' = None
    /\ UNCHANGED <<pc, idx, err, connection_errors, src_max_date, params,
                   data_request_endpoint, n_retries, attempt, src_data, now,
                   table, requests, sleeps>>

\* a call of get_target_max_date(target)
CallMaxDate ==
    /\ pc = "store_idle"
    /\ calls < MaxCalls
    /\ calls' = calls + 1
    /\ \E target \in SeqRange(source_names), e \in Exceptions :
        /\ GetTargetMaxDate(target, e)
        /\ err' = e
    /\ UNCHANGED <<pc, idx, client, connection_errors, params,
                   data_request_endpoint, n_retries, attempt, src_data, ret,
                   now, table, requests, sleeps>>

\* a call of insert_source_data(target, df)
CallInsert ==
    /\ pc = "store_idle"
    /\ calls < MaxCalls
    /\ calls' = calls + 1
    /\ \E target \in SeqRange(source_names), df \in DirectFrames,
          e \in Exceptions :
        /\ InsertDataframe(target, df, e)
        /\ src_data' = df
        /\ err' = e
    /\ UNCHANGED <<pc, idx, client, connection_errors, src_max_date, params,
                   data_request_endpoint, n_retries, attempt, ret, now,
                   requests, sleeps>>

NextStore ==
    \/ Next
    \/ CallConnect
    \/ CallDisconnect
    \/ CallMaxDate
    \/ CallInsert

SpecStore == InitStore /\ [][NextStore]_vars

\* The run is one sequential thread: python executes the next statement of
\* main() as long as there is one, and the remote answers every request.
SpecFair == Init /\ [][Next]_vars /\ WF_vars(Next)

----------------------------------------------------------------------------
(* _prepare_dataframe on one of the bool_columns of a frame                *)

\* cells of a column: a string, a number, NaN; None is a missing value
Str(s) == [str |-> s]
Num(n) == [num |-> n]
NaN == [nan |-> TRUE]

\* the cells a bool column arrives with: the two spellings the code knows,
\* other strings, a JSON boolean, a missing value
BoolCells ==
    {Str("true"), Str("false"), Str("True"), Str(""), PyBool(TRUE), None}

\* Series.map({'true': 1, 'false': 0}): NaN for a cell that is no key
BoolMap(v) ==
    IF v = Str("true") THEN Num(1)
    ELSE IF v = Str("false") THEN Num(0)
    ELSE NaN

\* (a coercion without fillna)
FillNaSkipped(x, d) == x

\* Series.fillna(d)
FillNa(x, d) == IF x = NaN THEN Num(d) ELSE x

\* Series.astype(bool): bool(x); bool(NaN) is True
AsTypeBool(x) == IF x = NaN THEN TRUE ELSE x.num # 0

\* _prepare_dataframe: the branch for col in bool_columns, cell by cell
PrepareBoolColumn(col) ==
    [j \in 1..Len(col) |-> AsTypeBool(FillNa(BoolMap(col[j]), 0))]

InitPrepare == InitAt("prepare")

\* a call of _prepare_dataframe(df), df with one bool column
PrepareDataframe ==
    /\ pc = "prepare"
    /\ \E col \in BoundedSeq(BoolCells, MaxRows) :
        /\ src_data' = col
        /\ ret' = PrepareBoolColumn(col)
    /\ pc' = "prepared"
    /\ UNCHANGED <<idx, client, connection_errors, src_max_date, params,
                   data_request_endpoint, n_retries, attempt, err, now, table,
                   requests, storeOps, sleeps, calls>>

NextPrepare == PrepareDataframe

SpecPrepare == InitPrepare /\ [][NextPrepare]_vars

----------------------------------------------------------------------------
(* Histories read by the properties                                        *)

IsOk(status) == status \in {200, 202}

\* the poll requests of one connector call, of one source
PollsOfCall(k) == SelectSeq(requests, LAMBDA r : r.kind = "poll" /\ r.call = k)
PollsOf(c) == SelectSeq(requests, LAMBDA r : r.kind = "poll" /\ r.cat = c)
SleepsOf(c) == SelectSeq(sleeps, LAMBDA z : z.cat = c)
OpsOf(op, c) == SelectSeq(storeOps, LAMBDA o : o.op = op /\ o.cat = c)

SubAnd(s, n) == SubSeq(s, 1, n)
AllPending(s) == \A j \in 1..Len(s) : s[j].status = 202

Ended == pc \in {"done", "failed"}

ChFailed == \E j \in 1..Len(storeOps) :
               storeOps[j].op = "connect" /\ storeOps[j].outcome # "ok"
AmFailed == \E j \in 1..Len(requests) :
               requests[j].kind = "probe" /\ requests[j].status # 200

----------------------------------------------------------------------------
\* C1: when every answer to a poll request is 202, _get_data_from_source
\* called with n_retries >= 1 sends exactly n_retries requests, no fewer and
\* no more, and then raises TimeoutError.
C1_PendingPollTimesOut ==
    LET polls == PollsOfCall(calls)
    IN AllPending(polls) =>
          /\ pc = "direct_polling" => Len(polls) < n_retries /\ ret = Running
          /\ pc = "idle" /\ polls # <<>> =>
                /\ Len(polls) = n_retries
                /\ ret = Raised("TimeoutError")

C1_Witness ==
    /\ pc = "idle"
    /\ n_retries = MaxAttempts
    /\ Len(PollsOfCall(calls)) = MaxAttempts
    /\ AllPending(PollsOfCall(calls))
    /\ ret = Raised("TimeoutError")

\* C2, as claimed: once the ClickHouse check has failed, the run has sent no
\* request to the remote service.
C2_NoRemoteCallAfterStoreFailure ==
    ChFailed /\ Ended => requests = <<>>

\* C2, amended: once the ClickHouse check has failed, the run still sends the
\* connectivity probe, exactly one request, and then fails with
\* ConnectionError; it sends no export request.
C2_OnlyProbeAfterStoreFailure ==
    ChFailed =>
       /\ \A j \in 1..Len(requests) : requests[j].kind = "probe"
       /\ pc = "test_connection" => requests = <<>>
       /\ pc # "test_connection" =>
             /\ Len(requests) = 1
             /\ pc = "failed"
             /\ err = "ConnectionError"

C2_Witness ==
    /\ ChFailed
    /\ ~AmFailed
    /\ pc = "failed"
    /\ Len(requests) = 1
    /\ requests[1].endpoint = test_endpoint

\* C3: in every ended run, successful or failed, the ClickHouse connection
\* has been released.
C3_ConnectionReleasedAtEnd ==
    Ended => ~client

\* C4: if the check of ClickHouse or of the remote service fails, the run
\* fails with ConnectionError and no source is attempted: no watermark read,
\* no export request, no insert.
C4_CheckFailureAbortsRun ==
    ChFailed \/ AmFailed =>
       /\ \A j \in 1..Len(requests) : requests[j].kind = "probe"
       /\ \A j \in 1..Len(storeOps) : storeOps[j].op \in {"connect", "close"}
       /\ pc # "test_connection" => pc = "failed" /\ err = "ConnectionError"

C4_Witness ==
    /\ AmFailed
    /\ ~ChFailed
    /\ pc = "failed"
    /\ err = "ConnectionError"

\* C5: _get_data_from_source sends a request only when the most recent
\* _request_source_data was answered 202 or 200; called with no submit, or
\* after a rejected one, it sends nothing.
C5_PollOnlyAfterAcceptedSubmit ==
    \A j \in 1..Len(requests) :
       requests[j].kind = "poll" =>
          \E i \in 1..(j - 1) :
             /\ requests[i].kind = "submit"
             /\ IsOk(requests[i].status)
             /\ \A m \in (i + 1)..(j - 1) : requests[m].kind # "submit"

\* the last submit request sent before request j, 0 if none
SubmitBefore(j) ==
    LET S == {i \in 1..(j - 1) : requests[i].kind = "submit"}
    IN IF S = {} THEN 0 ELSE CHOOSE i \in S : \A m \in S : m <= i

\* the request fingerprints the remote saw for one source
Fingerprints(c) ==
    {<<requests[j].endpoint, requests[j].params>> :
        j \in {i \in 1..Len(requests) : requests[i].cat = c}}

\* C6: within one source's sync every poll request carries the endpoint and
\* the parameters of that source's submit request, so that the remote sees
\* one fingerprint per source: date_until is not computed again and the
\* parameters of an earlier source are not replayed.
C6_PollReplaysSubmit ==
    /\ \A j \in 1..Len(requests) :
          requests[j].kind = "poll" =>
             LET i == SubmitBefore(j)
             IN /\ i > 0
                /\ requests[i].cat = requests[j].cat
                /\ requests[i].endpoint = requests[j].endpoint
                /\ requests[i].params = requests[j].params
                /\ requests[j].endpoint = appmetrica_endpoints[requests[j].cat]
                /\ requests[j].params.fields = appmetrica_fields[requests[j].cat]
    /\ \A c \in SeqRange(source_names) : Cardinality(Fingerprints(c)) <= 1

\* a poll of the second source sent after midnight has passed since its submit
C6_Witness ==
    \E j \in 1..Len(requests) :
       /\ requests[j].kind = "poll"
       /\ requests[j].cat = source_names[NSources]
       /\ strftime(StartOfDay(requests[j].at) - 1) # requests[j].params.date_until
       /\ requests[SubmitBefore(j)].params = requests[j].params

\* C7: a submit answered 202 is Accepted and one answered 200 is
\* AlreadyRequested, and polling follows both; any other status is Rejected:
\* the run fails there, with no poll request and no load for that source.
C7_SubmitClassification ==
    \A j \in 1..Len(requests) :
       requests[j].kind = "submit" =>
          LET r == requests[j]
          IN /\ r.status = 202 => SubmitResult(r.status) = "Accepted"
             /\ r.status = 200 => SubmitResult(r.status) = "AlreadyRequested"
             /\ IsOk(r.status) =>
                   IF j = Len(requests)
                   THEN pc = "polling" /\ err = "none" /\ Source = r.cat
                   ELSE requests[j + 1].kind = "poll" /\ requests[j + 1].cat = r.cat
             /\ ~IsOk(r.status) =>
                   /\ SubmitResult(r.status) = "Rejected"
                   /\ j = Len(requests)
                   /\ pc = "failed"
                   /\ err # "none"
                   /\ PollsOf(r.cat) = <<>>
                   /\ OpsOf("insert", r.cat) = <<>>

\* the second source's submit is rejected after the first source was polled
C7_Witness ==
    /\ pc = "failed"
    /\ requests[Len(requests)].kind = "submit"
    /\ requests[Len(requests)].cat = source_names[NSources]
    /\ ~IsOk(requests[Len(requests)].status)
    /\ \E j \in 1..Len(requests) :
          requests[j].kind = "submit" /\ requests[j].status = 200
             /\ requests[j + 1].kind = "poll"

\* C8: if the k-th poll answer is the first 200, all earlier ones being 202,
\* the poll returns its records at once: exactly k poll requests, no sleep
\* and no request after the 200, and a success, not a timeout, also when
\* k = n_retries.
C8_ReadyReturnsAtOnce ==
    \A c \in SeqRange(source_names) :
       LET polls == PollsOf(c)
       IN \A k \in 1..Len(polls) :
             polls[k].status = 200 =>
                /\ k = Len(polls)
                /\ k <= n_retries
                /\ AllPending(SubAnd(polls, k - 1))
                /\ Len(SleepsOf(c)) = k - 1
                /\ ~(Source = c /\ err \in {"TimeoutError", "TypeError"})
                /\ Source = c =>
                      /\ pc \notin {"request", "polling"}
                      /\ pc = "insert" =>
                            /\ err = "none"
                            /\ ret = PyDict(src_data)
                            /\ now = polls[k].at
                            /\ requests[Len(requests)] = polls[k]

\* the last allowed poll of a source is the one answered 200
C8_Witness ==
    /\ pc = "insert"
    /\ Len(PollsOf(Source)) = DefaultRetries
    /\ DefaultRetries >= 2
    /\ PollsOf(Source)[DefaultRetries].status = 200
    /\ requests[Len(requests)].kind = "poll"

\* C9: a poll answer other than 202 and 200 ends the poll in failure at that
\* attempt: no further request, no records, nothing loaded for that source.
C9_PollFailureIsFinal ==
    \A j \in 1..Len(requests) :
       requests[j].kind = "poll" /\ ~IsOk(requests[j].status) =>
          /\ j = Len(requests)
          /\ pc = "failed"
          /\ err = "TypeError"
          /\ ret = PyBool(FALSE)
          /\ OpsOf("insert", requests[j].cat) = <<>>

\* the second poll of a source is answered with an error
C9_Witness ==
    /\ pc = "failed"
    /\ requests[Len(requests)].kind = "poll"
    /\ ~IsOk(requests[Len(requests)].status)
    /\ Len(PollsOf(Source)) >= 2

\* the stages of one source that failed
WatermarkFailed(c) ==
    \E j \in 1..Len(storeOps) :
       storeOps[j].op = "max" /\ storeOps[j].cat = c /\ storeOps[j].outcome # "ok"
SubmitRejected(c) ==
    \E j \in 1..Len(requests) :
       requests[j].kind = "submit" /\ requests[j].cat = c /\ ~IsOk(requests[j].status)
PollFailed(c) ==
    \E j \in 1..Len(requests) :
       requests[j].kind = "poll" /\ requests[j].cat = c /\ ~IsOk(requests[j].status)
PollTimedOut(c) ==
    AllPending(PollsOf(c)) /\ Len(PollsOf(c)) >= DefaultRetries
LoadFailed(c) ==
    \E j \in 1..Len(storeOps) :
       storeOps[j].op = "insert" /\ storeOps[j].cat = c
          /\ storeOps[j].outcome \notin {"ok", "empty"}
StageFailed(c) ==
    \/ WatermarkFailed(c)
    \/ SubmitRejected(c)
    \/ PollFailed(c)
    \/ PollTimedOut(c)
    \/ LoadFailed(c)

\* C10: a failure in any stage of one source leaves the run failed and aborts
\* the remaining sources: no watermark read, export request or insert is made
\* for a later source.
C10_FailureAbortsRemainingSources ==
    \A i \in 1..NSources :
       StageFailed(source_names[i]) =>
          /\ pc = "failed"
          /\ err # "none"
          /\ idx = i
          /\ \A m \in (i + 1)..NSources :
                /\ \A j \in 1..Len(requests) : requests[j].cat # source_names[m]
                /\ \A j \in 1..Len(storeOps) : storeOps[j].cat # source_names[m]

\* the first source's load fails while a second source is still to come
C10_Witness ==
    /\ pc = "failed"
    /\ NSources > 1
    /\ LoadFailed(source_names[1])
    /\ err = "InsertError"

IsPrefix(s, t) == Len(s) <= Len(t) /\ SubSeq(t, 1, Len(s)) = s

\* C11: no step of a run removes or alters a row that is already in a table,
\* and the step in which a source fails changes no table: the rows inserted
\* for earlier sources stay as they are.
C11_CommittedRowsKept ==
    [][/\ \A c \in SeqRange(source_names) : IsPrefix(table[c], table'[c])
       /\ pc' = "failed" => table' = table]_vars

\* the second source fails after rows were inserted for the first
C11_Witness ==
    /\ pc = "failed"
    /\ idx = 2
    /\ StageFailed(source_names[2])
    /\ \E j \in 1..Len(storeOps) :
          /\ storeOps[j].op = "insert"
          /\ storeOps[j].cat = source_names[1]
          /\ storeOps[j].outcome = "ok"
          /\ storeOps[j].wrote >= 1
          /\ Len(table[source_names[1]]) >= storeOps[j].wrote

\* what the histories hold of one source
ReqsOf(c) == SelectSeq(requests, LAMBDA r : r.cat = c)
StoreOpsOf(c) == SelectSeq(storeOps, LAMBDA o : o.cat = c)
OpNames(ops) == [j \in 1..Len(ops) |-> ops[j].op]

\* the stages of one source that are over
WatermarkRead(c) ==
    /\ Len(OpsOf("max", c)) = 1
    /\ OpsOf("max", c)[1].outcome = "ok"
Submitted(c) ==
    /\ WatermarkRead(c)
    /\ ReqsOf(c) # <<>>
    /\ ReqsOf(c)[1].kind = "submit"
    /\ IsOk(ReqsOf(c)[1].status)
    /\ \A j \in 2..Len(ReqsOf(c)) : ReqsOf(c)[j].kind = "poll"
Polled(c) ==
    /\ Submitted(c)
    /\ PollsOf(c) # <<>>
    /\ PollsOf(c)[Len(PollsOf(c))].status = 200
    /\ AllPending(SubAnd(PollsOf(c), Len(PollsOf(c)) - 1))
Loaded(c) ==
    /\ Polled(c)
    /\ Len(OpsOf("insert", c)) = 1
    /\ OpsOf("insert", c)[1].outcome \in {"ok", "empty"}
    /\ OpNames(StoreOpsOf(c)) = <<"max", "insert">>

\* C12: the sources are synchronised one at a time in configuration order
\* (installations, then events), each as watermark read, submit, poll, load;
\* the watermark of a source is read only after the load of the source before
\* it is over, and no step of two sources interleaves.
C12_SequentialInOrder ==
    /\ source_names[1] = "installations"
    /\ source_names[NSources] = "events"
    /\ \A i \in 1..NSources :
          LET c == source_names[i]
          IN /\ i > idx => ReqsOf(c) = <<>> /\ StoreOpsOf(c) = <<>>
             /\ i < idx => Loaded(c)
             /\ i = idx =>
                   /\ pc \in {"connect", "test_connection", "max_date"} =>
                         ReqsOf(c) = <<>> /\ StoreOpsOf(c) = <<>>
                   /\ pc = "request" =>
                         /\ WatermarkRead(c)
                         /\ ReqsOf(c) = <<>>
                         /\ OpNames(StoreOpsOf(c)) = <<"max">>
                   /\ pc = "polling" =>
                         /\ Submitted(c)
                         /\ AllPending(PollsOf(c))
                         /\ OpNames(StoreOpsOf(c)) = <<"max">>
                   /\ pc = "insert" =>
                         /\ Polled(c)
                         /\ OpNames(StoreOpsOf(c)) = <<"max">>
                   /\ pc \in {"disconnect", "done"} =>
                         /\ i = NSources
                         /\ Loaded(c)
    /\ \A j \in 1..Len(storeOps) :
          storeOps[j].op = "max" /\ storeOps[j].cat # source_names[1] =>
             \E k \in 1..(j - 1) :
                /\ storeOps[k].op = "insert"
                /\ storeOps[k].outcome \in {"ok", "empty"}
                /\ \E i \in 1..(NSources - 1) :
                      /\ storeOps[k].cat = source_names[i]
                      /\ storeOps[j].cat = source_names[i + 1]

\* a whole run: both sources went through all four stages, in order
C12_Witness ==
    /\ pc = "done"
    /\ \A i \in 1..NSources : Polled(source_names[i])
    /\ [j \in 1..Len(storeOps) |-> storeOps[j].cat] =
          <<"", "installations", "installations", "events", "events", "">>
    /\ OpNames(storeOps) = <<"connect", "max", "insert", "max", "insert", "close">>

C14_DateUntilIsEndOfYesterday ==
    \A j \in 1..Len(requests) :
       requests[j].kind = "submit" =>
          LET today == requests[j].at \div DayLen
              until == requests[j].params.date_until
          IN /\ until = [date |-> today - 1, time |-> DayLen - 1]
             /\ strptime(until) = today * DayLen - 1
             /\ strptime(until) < today * DayLen
             /\ strptime(until) < requests[j].at

\* submits sent in the last second of a day and in the first of the next
C14_Witness ==
    /\ \E j \in 1..Len(requests) :
          /\ requests[j].kind = "submit"
          /\ requests[j].at % DayLen = DayLen - 1
          /\ requests[j].params.date_until.date = 1
    /\ \E j \in 1..Len(requests) :
          /\ requests[j].kind = "submit"
          /\ requests[j].at % DayLen = 0
          /\ requests[j].params.date_until.date = 2

\* C15: when MAX over an empty table is NULL the sync does not go on with a
\* null watermark: the run fails at the watermark read, and no export request
\* is ever sent with a null or missing date_since.
C15_NullWatermarkStopsSync ==
    /\ \A j \in 1..Len(storeOps) :
          storeOps[j].op = "max" /\ storeOps[j].outcome = "null" =>
             /\ pc = "failed"
             /\ err = "AttributeError"
             /\ j = Len(storeOps)
             /\ ReqsOf(storeOps[j].cat) = <<>>
    /\ \A j \in 1..Len(requests) :
          requests[j].kind \in {"submit", "poll"} =>
             /\ "date_since" \in DOMAIN requests[j].params
             /\ requests[j].params.date_since # strftime(NoDate)
             /\ strptime(requests[j].params.date_since) >= 0

\* the second source's table is empty and its MAX is NULL
C15_Witness ==
    /\ pc = "failed"
    /\ idx = 2
    /\ table[Source] = <<>>
    /\ storeOps[Len(storeOps)] = StoreOp("max", Source, "null", 0)
    /\ src_max_date = NoDate

\* the greatest timestamp of a non-empty sequence of rows
RowsMax(rows) ==
    CHOOSE m \in SeqRange(rows) : \A x \in SeqRange(rows) : x <= m
Greater(a, b) == IF a >= b THEN a ELSE b

\* C16: a successful load of a non-empty batch leaves the table's greatest
\* timestamp at the maximum over the rows stored before and the rows just
\* inserted; a watermark read returns the greatest timestamp of the table as
\* the runs before left it; and no step lowers a table's greatest timestamp,
\* so the watermark of a source never decreases from run to run.
C16_WatermarkIsMaxOfStored ==
    [][/\ \A c \in SeqRange(source_names) :
            table[c] # <<>> =>
               /\ table'[c] # <<>>
               /\ RowsMax(table'[c]) >= RowsMax(table[c])
       /\ pc = "insert" /\ pc' # "failed" /\ src_data # <<>> =>
             /\ table'[Source] # <<>>
             /\ RowsMax(table'[Source]) =
                   IF table[Source] = <<>> THEN RowsMax(src_data)
                   ELSE Greater(RowsMax(table[Source]), RowsMax(src_data))
       /\ pc = "max_date" /\ pc' = "request" /\ table[Source] # <<>> =>
             src_max_date' = RowsMax(table[Source])]_vars

\* the second run reads as watermark the timestamp of a record that the first
\* run loaded, newer than what was stored before
C16_Witness ==
    /\ calls = 1
    /\ pc = "request"
    /\ Len(table[Source]) >= 2
    /\ table[Source][Len(table[Source])] > table[Source][1]
    /\ src_max_date = table[Source][Len(table[Source])]

\* C17: a run sends one submit request per source at most, and a submit is a
\* single request; with the polls a source gets at most 1 + n_retries export
\* requests in a run.
C17_RequestsPerSourceBounded ==
    \A c \in SeqRange(source_names) :
       LET submits == SelectSeq(ReqsOf(c), LAMBDA r : r.kind = "submit")
       IN /\ Len(submits) <= 1
          /\ Len(ReqsOf(c)) = Len(submits) + Len(PollsOf(c))
          /\ Len(PollsOf(c)) <= DefaultRetries
          /\ Len(ReqsOf(c)) <= 1 + DefaultRetries
          /\ OpsOf("max", c) # <<>> /\ (Source # c \/ pc # "request") /\ ~WatermarkFailed(c)
                => Len(submits) = 1

\* a source that used its submit and every poll
C17_Witness ==
    \E c \in SeqRange(source_names) :
       /\ Len(ReqsOf(c)) = 1 + DefaultRetries
       /\ ReqsOf(c)[1].kind = "submit"
       /\ Len(PollsOf(c)) = DefaultRetries

\* Python's int(b) of a bool
PyInt(b) == IF b THEN 1 ELSE 0

\* C18: the coercion of a bool column gives 1 for the string "true", 0 for
\* the string "false", and 0 for every other cell, a missing one included,
\* and raises nothing.
C18_BoolCoercion ==
    pc = "prepared" =>
       /\ Len(ret) = Len(src_data)
       /\ err = "none"
       /\ \A j \in 1..Len(src_data) :
             /\ ret[j] \in BOOLEAN
             /\ src_data[j] = Str("true") => PyInt(ret[j]) = 1
             /\ src_data[j] = Str("false") => PyInt(ret[j]) = 0
             /\ src_data[j] \notin {Str("true"), Str("false")} =>
                   PyInt(ret[j]) = 0

\* a column with "true", a missing value and another string
C18_Witness ==
    /\ pc = "prepared"
    /\ src_data = <<Str("true"), None, Str("True")>>
    /\ ret = <<TRUE, FALSE, FALSE>>

\* the polling of source c has been left
PollLeft(c) == PollsOf(c) # <<>> /\ (Source # c \/ pc # "polling")
\* its three outcomes
PollReady(c) == PollsOf(c)[Len(PollsOf(c))].status = 200
PollError(c) == ~IsOk(PollsOf(c)[Len(PollsOf(c))].status)
PollExpired(c) ==
    AllPending(PollsOf(c)) /\ Len(PollsOf(c)) = DefaultRetries
OneOf(a, b, d) == (a /\ ~b /\ ~d) \/ (~a /\ b /\ ~d) \/ (~a /\ ~b /\ d)

PollBounded ==
    /\ \A c \in SeqRange(source_names) :
          /\ Len(PollsOf(c)) <= DefaultRetries
          /\ Len(SleepsOf(c)) <= Len(PollsOf(c))
          /\ PollLeft(c) => OneOf(PollReady(c), PollError(c), PollExpired(c))
          /\ PollsOf(c) # <<>> /\ ~PollLeft(c) =>
                AllPending(PollsOf(c)) /\ Len(PollsOf(c)) < DefaultRetries
    /\ Len(sleeps) <= NSources * DefaultRetries

\* C19: whatever the remote answers, the polling of a source sends at most
\* n_retries requests and is left in exactly one of the outcomes ready,
\* failed, timed out; so the run over the sources always ends, also when an
\* export stays pending for ever.
C19_RunTerminates == []PollBounded /\ <>Ended

\* a run that ended on an export that stayed pending
C19_Witness ==
    /\ Ended
    /\ err = "TimeoutError"
    /\ PollLeft(Source)
    /\ PollExpired(Source)
    /\ Len(SleepsOf(Source)) = DefaultRetries

\* the rows of a table are distinct records
NoDuplicates(rows) == Cardinality(SeqRange(rows)) = Len(rows)

\* C20: across successive runs, a record that is already stored in the
\* destination table is never inserted a second time: every table holds
\* each record once.
C20_NoRecordInsertedTwice ==
    \A c \in SeqRange(source_names) : NoDuplicates(table[c])

\* the store operations so far that reached, or tried to reach, a table
IsTableOp(o) == o.op \in {"max", "insert"}
\* get_client gave a client: connect() assigned self.client
IsOpen(o) == o.op = "connect" /\ o.outcome \in {"ok", "bad_check"}
IsClose(o) == o.op = "close"
\* connect() kept the client it made
Connected(o) == o.op = "connect" /\ o.outcome = "ok"
\* before operation j a connect succeeded and nothing was closed since
OpenBefore(ops, j) ==
    \E i \in 1..(j - 1) :
       /\ Connected(ops[i])
       /\ \A k \in (i + 1)..(j - 1) :
             ~IsClose(ops[k]) /\ ops[k].op # "connect"
\* the rows the inserts of target c wrote
WroteTo(ops, c) ==
    LET ins == SelectSeq(ops, LAMBDA o : o.op = "insert" /\ o.cat = c)
        Sum[j \in 0..Len(ins)] ==
            IF j = 0 THEN 0 ELSE Sum[j - 1] + ins[j].wrote
    IN Sum[Len(ins)]

\* C21: every watermark query and every insert that is executed is executed
\* on an open connection, and in a run of main() none is attempted on a
\* closed one; an operation attempted with no open connection raises
\* ConnectionError and writes nothing; every close follows an open that was
\* not closed yet, so a repeated disconnect closes nothing.
C21_StoreOpsOnOpenConnection ==
    /\ \A j \in 1..Len(storeOps) :
          /\ IsTableOp(storeOps[j]) =>
                /\ storeOps[j].outcome # "not_connected"
                      <=> OpenBefore(storeOps, j)
                /\ storeOps[j].outcome = "not_connected"
                      => storeOps[j].wrote = 0
                /\ pc # "store_idle" => storeOps[j].outcome # "not_connected"
          /\ IsClose(storeOps[j]) =>
                \E i \in 1..(j - 1) :
                   /\ IsOpen(storeOps[i])
                   /\ \A k \in (i + 1)..(j - 1) : ~IsClose(storeOps[k])
    /\ client <=> OpenBefore(storeOps, Len(storeOps) + 1)
    /\ /\ storeOps # <<>>
       /\ IsTableOp(storeOps[Len(storeOps)])
       /\ storeOps[Len(storeOps)].outcome = "not_connected"
       => err = "ConnectionError"
    /\ pc = "store_idle" =>
          \A c \in SeqRange(source_names) :
             Len(table[c]) = WroteTo(storeOps, c)

\* a failed connect closed its client, the disconnect after it closed
\* nothing, and the insert after that was refused
C21_Witness ==
    /\ pc = "store_idle"
    /\ calls = 3
    /\ OpNames(storeOps) = <<"connect", "close", "insert">>
    /\ storeOps[1].outcome = "bad_check"
    /\ storeOps[3].outcome = "not_connected"
    /\ err = "ConnectionError"
    /\ table = [c \in SeqRange(source_names) |-> <<>>]

====
